---- MODULE Spec2Model ----
(***************************************************************************)
(* DealFlow lead management (src/dealflow/dealflow.py).                    *)
(*                                                                         *)
(* State: the module globals LEADS (dict id -> Lead), SALES_REPS (fixed    *)
(* list) and route_counter.  Operations: the coroutines ingest_lead,       *)
(* enrich_lead, score_lead, route_lead, report_performance and             *)
(* process_lead_and_report.                                                *)
(*                                                                         *)
(* Scheduling: every operation is an `async def` run by the event loop     *)
(* that app.run() starts (line 165).  A coroutine gives up control only at *)
(* an `await`.  The bodies of the five basic operations (lines 35-38,      *)
(* 43-52, 57-64, 69-77, 83-102) contain no `await`, so each body runs to   *)
(* completion once entered: one action each.  process_lead_and_report has  *)
(* five `await`s (lines 130-138); it is a process whose position `pc`      *)
(* advances one awaited stage per step, other work may run in between.     *)
(*                                                                         *)
(* Not modelled: Lead.created_at (a clock reading no operation reads), the *)
(* key order of Lead.extra, and the text of the notification print.        *)
(***************************************************************************)
EXTENDS Integers, Sequences, FiniteSets, TLC

VARIABLES
    LEADS,          \* dict[int, Lead]: a function from the keys to Lead records
    route_counter,  \* the round-robin cursor
    ret,            \* outcome of the latest call of a basic operation
    pipe,           \* the process_lead_and_report invocations, by process
    issued,         \* history: ids handed out by ingest_lead, in call order
    routed,         \* history: one entry per completed route_lead body
    applied         \* history: per lead, the ingested record and operations run

vars == <<LEADS, route_counter, ret, pipe, issued, routed, applied>>

(***************************************************************************)
(* Bounds.                                                                 *)
(***************************************************************************)
MaxLeads == 2      \* no ingest once the Store holds this many leads
MaxRoutes == 3     \* no direct route_lead call once the cursor reached this
MaxRun == 9        \* the same, in the specification of a run of routes alone

(***************************************************************************)
(* Values.                                                                 *)
(***************************************************************************)
None == "None"     \* Optional[str] score: unset

\* Optional[dict] assigned_to: unset
NoRep == [id |-> 0, name |-> None, specialty |-> None, comment |-> None]

SALES_REPS ==
    << [id |-> 1, name |-> "Alice",
        specialty |-> "Startup founders, corporate execs",
        comment |-> "Great with high-value and target buyers"],
       [id |-> 2, name |-> "Bob",
        specialty |-> "ML engineers, students, researchers",
        comment |-> "Technical, connects with influencers and evangelists"],
       [id |-> 3, name |-> "Carol",
        specialty |-> "Investors, VCs, referrals",
        comment |-> "Understands investor mindset, builds relationships"] >>

\* A str that the code transforms is a sequence of one-character strings.
Names == { <<"J", " ", "D">> }
Emails == { "jane@x.com" }
Sources == { "web_form", "referral" }

\* dict literals: a dict whose key order is not observed is a function
EmptyDict == [k \in {} |-> None]

\* The `extra` arguments tried: absent (None), and two mappings.
NoExtra == [given |-> FALSE, dict |-> EmptyDict]
Extras ==
    { NoExtra,
      [given |-> TRUE, dict |-> EmptyDict],
      [given |-> TRUE, dict |-> [company |-> "Initech", note |-> "vip",
                                 linkedin |-> <<"old">>]] }

\* Lead ids a caller may pass: every id the Store can hold and one it cannot.
CallIds == 1 .. (MaxLeads + 1)

\* The process_lead_and_report invocations in progress.  The stages of a second
\* invocation are the calls the dispatcher makes directly (Ingest, Enrich,
\* Score, Route, Report below), so one process meets every interleaving.
Procs == { "p1" }

(***************************************************************************)
(* dict helpers.                                                           *)
(***************************************************************************)
\* len(d)
len(d) == Cardinality(DOMAIN d)

\* a variant: the dict is rebuilt with the one item
SetItem_only(d, k, v) == [x \in {k} |-> v]

\* d[k] = v
SetItem(d, k, v) == [x \in (DOMAIN d) \cup {k} |-> IF x = k THEN v ELSE d[x]]

\* a variant: d is replaced by e
Update_replace(d, e) == e

\* d.update(e)
Update(d, e) ==
    [x \in (DOMAIN d) \cup (DOMAIN e) |-> IF x \in DOMAIN e THEN e[x] ELSE d[x]]

\* d.get(k, default)
Get(d, k, default) == IF k \in DOMAIN d THEN d[k] ELSE default

\* a variant: a lookup that makes up a record for an absent key
getitem_default(L, k) ==
    [err |-> None,
     lead |-> IF k \in DOMAIN L THEN L[k]
              ELSE [id |-> k, name |-> <<>>, email |-> None, source |-> None,
                    extra |-> EmptyDict, status |-> "new", score |-> None,
                    assigned_to |-> [id |-> 0, name |-> None, specialty |-> None,
                                     comment |-> None]]]

\* LEADS[lead_id] (lines 43, 57, 70): the value, or KeyError
getitem(L, k) ==
    IF k \in DOMAIN L THEN [err |-> None, lead |-> L[k]]
    ELSE [err |-> "KeyError"]

(***************************************************************************)
(* str helpers: name.replace(' ', '').lower()                              *)
(***************************************************************************)
lower(c) ==
    CASE c = "J" -> "j"
      [] c = "D" -> "d"
      [] OTHER -> c

RECURSIVE replace_space(_)
replace_space(s) ==
    IF s = <<>> THEN <<>>
    ELSE IF Head(s) = " " THEN replace_space(Tail(s))
         ELSE <<Head(s)>> \o replace_space(Tail(s))

lower_str(s) == [i \in 1 .. Len(s) |-> lower(s[i])]

(***************************************************************************)
(* Lead(id=..., name=..., email=..., source=..., extra=...): the fields    *)
(* not passed take the defaults of lines 20-22.                            *)
(***************************************************************************)
Lead(lid, name, email, source, extra) ==
    [id |-> lid, name |-> name, email |-> email, source |-> source,
     extra |-> extra, status |-> "new", score |-> None, assigned_to |-> NoRep]

\* a variant: the mapping passed is dropped
extra_dropped(extra) == EmptyDict

\* `extra or {}` (line 36): None and the empty dict are both falsy
extra_or_empty(extra) ==
    IF extra.given /\ extra.dict # EmptyDict THEN extra.dict ELSE EmptyDict

\* a variant: the size itself once the Store is not empty
next_lid_stale(L) == IF len(L) = 0 THEN 1 ELSE len(L)

\* line 35
next_lid(L) == len(L) + 1

\* a variant: another company value than the one score_lead tests
enrichment_other(lead) ==
    [company |-> "Acme Inc",
     linkedin |-> <<"https://linkedin.com/in/">>
                    \o lower_str(replace_space(lead.name)),
     industry |-> "Technology",
     location |-> "San Francisco, CA"]

\* lines 44-49
enrichment(lead) ==
    [company |-> "Acme Corp",
     linkedin |-> <<"https://linkedin.com/in/">>
                    \o lower_str(replace_space(lead.name)),
     industry |-> "Technology",
     location |-> "San Francisco, CA"]

\* a variant: the update is not applied
enriched_unchanged(lead) == lead

\* a variant: the name is normalised in place along the way
enriched_renamed(lead) ==
    [lead EXCEPT !.extra = Update(lead.extra, enrichment(lead)),
                 !.name = lower_str(replace_space(lead.name))]

\* lines 44-50: the lead after lead.extra.update(enrichment)
enriched(lead) == [lead EXCEPT !.extra = Update(lead.extra, enrichment(lead))]

\* a variant: a lead without a company counts as the canonical company
scored_default_acme(lead) ==
    LET company == Get(lead.extra, "company", "Acme Corp")
    IN  IF company = "Acme Corp" /\ lead.source = "web_form"
        THEN [lead EXCEPT !.score = "SQL"]
        ELSE [lead EXCEPT !.score = "MQL"]

\* lines 58-62: the lead after the scoring rule
scored(lead) ==
    LET company == Get(lead.extra, "company", "")
    IN  IF company = "Acme Corp" /\ lead.source = "web_form"
        THEN [lead EXCEPT !.score = "SQL"]
        ELSE [lead EXCEPT !.score = "MQL"]

\* a variant: the agent is picked after the cursor moved
pick_rep_early(counter) == SALES_REPS[((counter + 1) % Len(SALES_REPS)) + 1]

\* line 71: SALES_REPS[route_counter % len(SALES_REPS)], 1-based here
pick_rep(counter) == SALES_REPS[(counter % Len(SALES_REPS)) + 1]

\* a variant: the cursor is kept below the roster size
bump_wrapped(counter) == (counter + 1) % Len(SALES_REPS)

\* a variant: the increment is lost
bump_lost(counter) == counter

\* line 72
bump(counter) == counter + 1

\* a variant: line 74 is missing
routed_lead_no_status(lead, rep) == [lead EXCEPT !.assigned_to = rep]

\* a variant: the record written back was copied before it was scored
routed_lead_fresh(lead, rep) ==
    [lead EXCEPT !.assigned_to = rep, !.status = "assigned", !.score = None]

\* a variant: routing an assigned lead again reopens it
routed_lead_reopened(lead, rep) ==
    [lead EXCEPT !.assigned_to = rep,
                 !.status = IF lead.status = "assigned" THEN "new" ELSE "assigned"]

\* lines 73-74
routed_lead(lead, rep) == [lead EXCEPT !.assigned_to = rep, !.status = "assigned"]

(***************************************************************************)
(* Dicts whose iteration order the code observes (the three groupings of   *)
(* the report): a sequence of <<key, value>> pairs in insertion order.     *)
(***************************************************************************)
keys(d) == { d[i][1] : i \in 1 .. Len(d) }

\* d.get(k, default)
get(d, k, default) ==
    IF k \in keys(d)
    THEN d[CHOOSE i \in 1 .. Len(d) : d[i][1] = k][2]
    ELSE default

\* d[k] = v: an existing key keeps its position, a new key goes last
setitem(d, k, v) ==
    IF k \in keys(d)
    THEN [i \in 1 .. Len(d) |-> IF d[i][1] = k THEN <<k, v>> ELSE d[i]]
    ELSE Append(d, <<k, v>>)

RECURSIVE sum_values(_)
sum_values(d) == IF d = <<>> THEN 0 ELSE Head(d)[2] + sum_values(Tail(d))

\* LEADS.values(): ingest_lead inserts the keys in increasing order
RECURSIVE values(_)
values(L) ==
    IF DOMAIN L = {} THEN <<>>
    ELSE LET k == CHOOSE x \in DOMAIN L : \A y \in DOMAIN L : x <= y
         IN  <<L[k]>> \o values([x \in (DOMAIN L) \ {k} |-> L[x]])

(***************************************************************************)
(* report_performance, lines 83-102, and format_report_markdown, 104-124.  *)
(***************************************************************************)
\* a variant: the last roster agent is not seeded
seed_reps_short ==
    [i \in 1 .. (Len(SALES_REPS) - 1) |-> <<SALES_REPS[i].name, 0>>]

\* line 86
seed_reps == [i \in 1 .. Len(SALES_REPS) |-> <<SALES_REPS[i].name, 0>>]

\* lines 84-86
seed == [leads_by_source |-> <<>>,
         leads_by_score |-> << <<"MQL", 0>>, <<"SQL", 0>> >>,
         leads_by_rep |-> seed_reps,
         err |-> None]

\* a variant: the count is set, not raised
count_source_once(by_source, lead) == setitem(by_source, lead.source, 1)

\* line 88
count_source(by_source, lead) ==
    setitem(by_source, lead.source, get(by_source, lead.source, 0) + 1)

\* a variant: every score value gets a bucket
count_score_any(by_score, lead) ==
    setitem(by_score, lead.score, get(by_score, lead.score, 0) + 1)

\* lines 89-90
count_score(by_score, lead) ==
    IF lead.score \in keys(by_score)
    THEN setitem(by_score, lead.score, get(by_score, lead.score, 0) + 1)
    ELSE by_score

\* lines 91-92: `if lead.assigned_to` is false for None; a name that is no
\* key of leads_by_rep raises KeyError
count_rep(acc, lead) ==
    LET name == lead.assigned_to.name
    IN  IF lead.assigned_to = NoRep THEN acc
        ELSE IF name \notin keys(acc.leads_by_rep)
        THEN [acc EXCEPT !.err = "KeyError"]
        ELSE [acc EXCEPT !.leads_by_rep =
                             setitem(@, name, get(@, name, 0) + 1)]

\* lines 88-92, one lead
count_lead(acc, lead) ==
    count_rep([acc EXCEPT !.leads_by_source = count_source(@, lead),
                          !.leads_by_score = count_score(@, lead)], lead)

\* line 87: the loop, left as soon as line 92 raises
RECURSIVE count_leads(_, _)
count_leads(acc, leads) ==
    IF leads = <<>> \/ acc.err # None THEN acc
    ELSE count_leads(count_lead(acc, Head(leads)), Tail(leads))

\* lines 105-124: the fixed text carries the total and the rows of three
\* tables, each in the iteration order of its dict
format_report_markdown(report) ==
    [total |-> report.total_leads,
     source_rows |-> report.leads_by_source,
     score_rows |-> report.leads_by_score,
     rep_rows |-> report.leads_by_rep]

NoReport == [total_leads |-> 0, leads_by_source |-> <<>>,
             leads_by_score |-> <<>>, leads_by_rep |-> <<>>]

\* lines 83-102: the returned dict, or the exception
report_performance(L) ==
    LET acc == count_leads(seed, values(L))
        report == [total_leads |-> len(L),
                   leads_by_source |-> acc.leads_by_source,
                   leads_by_score |-> acc.leads_by_score,
                   leads_by_rep |-> acc.leads_by_rep]
    IN  IF acc.err # None
        THEN [err |-> acc.err, report_markdown |-> format_report_markdown(NoReport),
              report_data |-> NoReport]
        ELSE [err |-> None, report_markdown |-> format_report_markdown(report),
              report_data |-> report]

(***************************************************************************)
(* Outcomes of a call.                                                     *)
(***************************************************************************)
NoLead == Lead(0, <<>>, None, None, EmptyDict)

\* the arguments of an ingest_lead call
NoCall == [name |-> <<>>, email |-> None, source |-> None, extra |-> NoExtra]

Returned(op, arg, lead) ==
    [op |-> op, arg |-> arg, call |-> NoCall, err |-> None, lead |-> lead,
     report |-> NoReport]
Ingested(call, lead) ==
    [op |-> "ingest_lead", arg |-> lead.id, call |-> call, err |-> None,
     lead |-> lead, report |-> NoReport]
Raised(op, arg, e) ==
    [op |-> op, arg |-> arg, call |-> NoCall, err |-> e, lead |-> NoLead,
     report |-> NoReport]
Reported(r) ==
    [op |-> "report_performance", arg |-> 0, call |-> NoCall, err |-> r.err,
     lead |-> NoLead, report |-> r.report_data]

\* history: the operations run on a lead since it was ingested
Note(h, lid, op) ==
    IF lid \in DOMAIN h THEN [h EXCEPT ![lid].ops = @ \cup {op}] ELSE h

(***************************************************************************)
(* A process_lead_and_report invocation.  pc is the stage it runs next;    *)
(* lid the id its ingest returned.  History: `before` is the report data   *)
(* and `cursor` the counter when it was entered, kept while `alone` holds, *)
(* that is while no step of anything else ran since.                       *)
(***************************************************************************)
Idle == [pc |-> "idle", lid |-> 0, source |-> None, alone |-> FALSE,
         before |-> NoReport, cursor |-> 0, report_data |-> NoReport]

\* a step of `self` (or of the dispatcher, self = None) interleaves with the rest
Interleave(P, self) ==
    [p \in DOMAIN P |->
        IF p = self \/ ~P[p].alone THEN P[p]
        ELSE [P[p] EXCEPT !.alone = FALSE, !.before = NoReport, !.cursor = 0]]

(***************************************************************************)
(* Initial state: module import, lines 24-30.                              *)
(***************************************************************************)
Init ==
    /\ LEADS = EmptyDict
    /\ route_counter = 0
    /\ ret = Raised("none", 0, None)
    /\ pipe = [p \in Procs |-> Idle]
    /\ issued = <<>>
    /\ routed = <<>>
    /\ applied = EmptyDict

(***************************************************************************)
(* ingest_lead, lines 33-38.                                               *)
(***************************************************************************)
ingest_lead(name, email, source, extra) ==
    LET lid == next_lid(LEADS)
        lead == Lead(lid, name, email, source, extra_or_empty(extra))
    IN  /\ LEADS' = SetItem(LEADS, lid, lead)
        /\ ret' = Ingested([name |-> name, email |-> email, source |-> source,
                             extra |-> extra], lead)
        /\ issued' = Append(issued, lid)
        /\ applied' = SetItem(applied, lid, [orig |-> lead, ops |-> {}])
        /\ UNCHANGED route_counter

(***************************************************************************)
(* enrich_lead, lines 41-52.                                               *)
(***************************************************************************)
enrich_lead(lead_id) ==
    IF getitem(LEADS, lead_id).err # None
    THEN /\ ret' = Raised("enrich_lead", lead_id,
                        getitem(LEADS, lead_id).err)       \* line 43
         /\ UNCHANGED <<LEADS, route_counter, issued, routed, applied>>
    ELSE LET lead == enriched(getitem(LEADS, lead_id).lead)
         IN  /\ LEADS' = SetItem(LEADS, lead_id, lead)               \* line 51
             /\ ret' = Returned("enrich_lead", lead_id, lead)
             /\ applied' = Note(applied, lead_id, "enrich")
             /\ UNCHANGED <<route_counter, issued, routed>>

(***************************************************************************)
(* score_lead, lines 55-64.                                                *)
(***************************************************************************)
score_lead(lead_id) ==
    IF getitem(LEADS, lead_id).err # None
    THEN /\ ret' = Raised("score_lead", lead_id,
                        getitem(LEADS, lead_id).err)        \* line 57
         /\ UNCHANGED <<LEADS, route_counter, issued, routed, applied>>
    ELSE LET lead == scored(getitem(LEADS, lead_id).lead)
         IN  /\ LEADS' = SetItem(LEADS, lead_id, lead)               \* line 63
             /\ ret' = Returned("score_lead", lead_id, lead)
             /\ applied' = Note(applied, lead_id, "score")
             /\ UNCHANGED <<route_counter, issued, routed>>

(***************************************************************************)
(* route_lead, lines 67-77.                                                *)
(***************************************************************************)
route_lead(lead_id) ==
    IF getitem(LEADS, lead_id).err # None
    THEN /\ ret' = Raised("route_lead", lead_id,
                        getitem(LEADS, lead_id).err)        \* line 70
         /\ UNCHANGED <<LEADS, route_counter, issued, routed, applied>>
    ELSE LET rep == pick_rep(route_counter)                          \* line 71
             lead == routed_lead(getitem(LEADS, lead_id).lead, rep)  \* 73-74
         IN  /\ route_counter' = bump(route_counter)                 \* line 72
             /\ LEADS' = SetItem(LEADS, lead_id, lead)               \* line 76
             /\ ret' = Returned("route_lead", lead_id, lead)
             /\ routed' = Append(routed, [cursor |-> route_counter, rep |-> rep])
             /\ applied' = Note(applied, lead_id, "route")
             /\ UNCHANGED issued

(***************************************************************************)
(* report_performance as an operation: it assigns no global.               *)
(***************************************************************************)
\* a variant: taking a report restarts the rotation
report_call_reset ==
    /\ ret' = Reported(report_performance(LEADS))
    /\ route_counter' = 0
    /\ UNCHANGED <<LEADS, issued, routed, applied>>

report_call ==
    /\ ret' = Reported(report_performance(LEADS))
    /\ UNCHANGED <<LEADS, route_counter, issued, routed, applied>>

(***************************************************************************)
(* Calls of the basic operations by the dispatcher.                        *)
(***************************************************************************)
Ingest ==
    /\ len(LEADS) < MaxLeads
    /\ \E name \in Names, email \in Emails, source \in Sources, extra \in Extras :
           ingest_lead(name, email, source, extra)
    /\ UNCHANGED routed
    /\ pipe' = Interleave(pipe, None)

Enrich ==
    /\ \E lead_id \in CallIds : enrich_lead(lead_id)
    /\ pipe' = Interleave(pipe, None)

Score ==
    /\ \E lead_id \in CallIds : score_lead(lead_id)
    /\ pipe' = Interleave(pipe, None)

Route ==
    /\ \E lead_id \in CallIds : route_lead(lead_id)
    /\ pipe' = Interleave(pipe, None)

Report ==
    /\ report_call
    /\ pipe' = Interleave(pipe, None)

(***************************************************************************)
(* process_lead_and_report, lines 127-162: one step per awaited stage.  A  *)
(* stage that raises ends the invocation (the exception is not caught).    *)
(***************************************************************************)
Advance(self, stage, fields) ==
    pipe' = [Interleave(pipe, self) EXCEPT
                ![self] = IF ret'.err = None
                          THEN [fields EXCEPT !.pc = stage]
                          ELSE [fields EXCEPT !.pc = "raised"]]

\* entry and line 130
PipeIngest(self) ==
    /\ pipe[self].pc = "idle"
    /\ len(LEADS) < MaxLeads
    /\ \E name \in Names, email \in Emails, source \in Sources :
           /\ ingest_lead(name, email, source, NoExtra)
           /\ Advance(self, "enrich",
                      [pipe[self] EXCEPT
                          !.lid = ret'.lead.id, !.source = source, !.alone = TRUE,
                          !.before = report_performance(LEADS).report_data,
                          !.cursor = route_counter])
    /\ UNCHANGED routed

\* line 132
PipeEnrich(self) ==
    /\ pipe[self].pc = "enrich"
    /\ enrich_lead(pipe[self].lid)
    /\ Advance(self, "score", pipe[self])

\* a variant: the stage addresses the newest lead, not the one it ingested
PipeScore_newest(self) ==
    /\ pipe[self].pc = "score"
    /\ score_lead(len(LEADS))
    /\ Advance(self, "route", pipe[self])

\* line 134
PipeScore(self) ==
    /\ pipe[self].pc = "score"
    /\ score_lead(pipe[self].lid)
    /\ Advance(self, "route", pipe[self])

\* line 136
PipeRoute(self) ==
    /\ pipe[self].pc = "route"
    /\ route_lead(pipe[self].lid)
    /\ Advance(self, "report", pipe[self])

\* line 138, and the return of lines 158-162
PipeReport(self) ==
    /\ pipe[self].pc = "report"
    /\ report_call
    /\ Advance(self, "done", [pipe[self] EXCEPT !.report_data = ret'.report])

\* the dispatcher takes the result (or the exception); the process is free again
PipeReturn(self) ==
    /\ pipe[self].pc \in {"done", "raised"}
    /\ pipe' = [Interleave(pipe, self) EXCEPT ![self] = Idle]
    /\ UNCHANGED <<LEADS, route_counter, ret, issued, routed, applied>>

Pipeline ==
    \E self \in Procs :
        \/ PipeIngest(self)
        \/ PipeEnrich(self)
        \/ PipeScore(self)
        \/ PipeRoute(self)
        \/ PipeReport(self)
        \/ PipeReturn(self)

Next ==
    \/ Ingest
    \/ Enrich
    \/ Score
    \/ route_counter < MaxRoutes /\ Route
    \/ Report
    \/ Pipeline

Spec == Init /\ [][Next]_vars

(***************************************************************************)
(* A pipeline under the event loop, lines 126-162 and 164-165.  The loop   *)
(* resumes a coroutine whose awaited stage can run, so a pipeline that can *)
(* take a step eventually takes one.  The dispatcher ingests at any time   *)
(* and calls the other operations between the stages of a pipeline, while  *)
(* the Store has room.                                                     *)
(***************************************************************************)
\* a pipeline is between its ingest (line 135) and its return (line 158)
InFlight ==
    \E p \in Procs : pipe[p].pc \in { "enrich", "score", "route", "report" }

NextFair ==
    \/ Pipeline
    \/ Ingest
    \/ InFlight /\ len(LEADS) < MaxLeads /\ Enrich
    \/ InFlight /\ len(LEADS) < MaxLeads /\ Score
    \/ InFlight /\ len(LEADS) < MaxLeads /\ route_counter < 1 /\ Route
    \/ InFlight /\ len(LEADS) < MaxLeads /\ Report

SpecFair == Init /\ [][NextFair]_vars /\ WF_vars(Pipeline)

(***************************************************************************)
(* A run of route_lead calls with nothing in between: leads are ingested,  *)
(* then only route_lead is called.                                         *)
(***************************************************************************)
NextRun ==
    \/ route_counter = 0 /\ Ingest
    \/ route_counter < MaxRun /\ Route

SpecRun == Init /\ [][NextRun]_vars

(***************************************************************************)
(* Properties.                                                             *)
(***************************************************************************)
\* the roster position (0-based, as in the source) of an agent record
RosterIndex(r) == (CHOOSE i \in 1 .. Len(SALES_REPS) : SALES_REPS[i] = r) - 1

\* how many of the route calls a..b of the history chose roster position x
Chosen(a, b, x) ==
    Cardinality({ i \in a .. b : routed[i].rep = SALES_REPS[x + 1] })

\* C1: round-robin.  In a run of route_lead calls alone, take any stretch of
\* N successive calls that starts with the cursor at c: the k-th call
\* (k = 0, 1, ...) reads cursor c + k and assigns roster position
\* (c + k) mod 3, the cursor ends at c + N, and each of the three agents is
\* chosen floor(N/3) or ceil(N/3) times.
C1_RoundRobin ==
    /\ route_counter = Len(routed)
    /\ \A a \in 1 .. Len(routed) : \A b \in a .. Len(routed) :
          LET c == routed[a].cursor
              N == b - a + 1
          IN  /\ \A k \in 0 .. (N - 1) :
                    /\ routed[a + k].cursor = c + k
                    /\ routed[a + k].rep \in { SALES_REPS[j] : j \in 1 .. 3 }
                    /\ RosterIndex(routed[a + k].rep) = (c + k) % 3
              /\ \A x \in 0 .. 2 :
                    Chosen(a, b, x) \in { N \div 3, (N + 2) \div 3 }

\* C1 witness: 7 calls from cursor 0 chose positions 0,1,2,0,1,2,0; cursor 7.
C1_SevenCalls ==
    /\ Len(routed) = 7
    /\ routed[1].cursor = 0
    /\ [i \in 1 .. 7 |-> RosterIndex(routed[i].rep)] = <<0, 1, 2, 0, 1, 2, 0>>
    /\ route_counter = 7

\* C2: ids are never handed out twice.  The ids returned by the ingest_lead
\* calls so far (direct or from a pipeline, interleaved with everything
\* else) are pairwise different, and each names its own Store entry: no
\* ingest replaced a lead that was there.
C2_UniqueIds ==
    /\ \A i, j \in 1 .. Len(issued) : i # j => issued[i] # issued[j]
    /\ DOMAIN LEADS = { issued[i] : i \in 1 .. Len(issued) }
    /\ len(LEADS) = Len(issued)

\* C2 witness: a pipeline's ingest got its id while the Store already held a
\* lead that has since been worked on.
C2_TwoIngests ==
    /\ Len(issued) = 2
    /\ pipe["p1"].pc = "enrich"
    /\ pipe["p1"].lid = 2
    /\ LEADS[1].score # None

\* C3: route calls never see the same cursor twice.  Over all completed
\* route_lead bodies, from direct calls and pipelines in any interleaving,
\* the cursor values read are pairwise different, the cursor equals the
\* number of completed calls, and the i-th call chose roster position
\* (c + i) mod 3 counted from the first cursor c: none skipped or repeated.
C3_RouteAtomic ==
    /\ \A i, j \in 1 .. Len(routed) : i # j => routed[i].cursor # routed[j].cursor
    /\ route_counter = Len(routed)
    /\ \A i \in 1 .. Len(routed) :
          routed[i].rep = SALES_REPS[((routed[1].cursor + i - 1) % 3) + 1]

\* C3 witness: a pipeline's route ran between direct route calls, and the
\* cursor has wrapped round the roster.
C3_InterleavedRoutes ==
    /\ Len(routed) = 4
    /\ pipe["p1"].pc = "report"
    /\ ~pipe["p1"].alone
    /\ ret.op = "route_lead" /\ ret.arg = pipe["p1"].lid /\ ret.err = None
    /\ ret.lead.assigned_to = SALES_REPS[1]

\* the keys enrich_lead writes
EnrichKeys == { "company", "linkedin", "industry", "location" }

\* the scoring rule as the documentation states it
Rule(company, source) ==
    IF company = "Acme Corp" /\ source = "web_form" THEN "SQL" ELSE "MQL"

\* C4: per-lead updates are not lost.  For every lead, with the set of
\* operations that completed on it (in any interleaving of direct calls and
\* pipeline stages), the record is what some serial order of them gives:
\* id, name, email and source as ingested; extra is the ingested mapping,
\* with the four enrichment keys written over it iff enrich ran; score is
\* unset iff score never ran, else the rule's value on the company before
\* or after enrichment; status and assigned_to are set iff route ran.
C4_NoLostUpdate ==
    \A id \in DOMAIN LEADS :
        LET lead == LEADS[id]
            orig == applied[id].orig
            ops == applied[id].ops
        IN  /\ lead.id = id /\ orig.id = id
            /\ lead.name = orig.name
            /\ lead.email = orig.email
            /\ lead.source = orig.source
            /\ IF "enrich" \in ops
               THEN /\ DOMAIN lead.extra = (DOMAIN orig.extra) \cup EnrichKeys
                    /\ lead.extra["company"] = "Acme Corp"
                    /\ lead.extra["industry"] = "Technology"
                    /\ lead.extra["location"] = "San Francisco, CA"
                    /\ \A k \in (DOMAIN orig.extra) \ EnrichKeys :
                           lead.extra[k] = orig.extra[k]
               ELSE lead.extra = orig.extra
            /\ IF "score" \in ops
               THEN \/ lead.score = Rule(Get(orig.extra, "company", ""), lead.source)
                    \/ "enrich" \in ops /\ lead.score = Rule("Acme Corp", lead.source)
               ELSE lead.score = None
            /\ IF "route" \in ops
               THEN /\ lead.status = "assigned"
                    /\ lead.assigned_to \in { SALES_REPS[i] : i \in 1 .. 3 }
               ELSE lead.status = "new" /\ lead.assigned_to = NoRep

\* C4 witness: a direct route_lead ran on a pipeline's lead between the
\* pipeline's stages; the lead holds all three updates.
C4_AllThreeInterleaved ==
    /\ pipe["p1"].pc = "route"
    /\ ~pipe["p1"].alone
    /\ pipe["p1"].lid \in DOMAIN LEADS
    /\ applied[pipe["p1"].lid].ops = { "enrich", "score", "route" }
    /\ LEADS[pipe["p1"].lid].score = "SQL"
    /\ LEADS[pipe["p1"].lid].assigned_to = SALES_REPS[2]

\* C5: enrich_lead, score_lead or route_lead called with an id that is not a
\* key of the Store raises KeyError and leaves the Store as it was.
C5_NotFound ==
    [][ (/\ ret'.op \in { "enrich_lead", "score_lead", "route_lead" }
         /\ ret'.arg \notin DOMAIN LEADS)
        => (ret'.err = "KeyError" /\ LEADS' = LEADS) ]_vars

\* C5 witness: route_lead failed on an absent id while the Store held a lead.
C5_RouteMissing ==
    /\ ret.op = "route_lead"
    /\ ret.err = "KeyError"
    /\ ret.arg = 2
    /\ DOMAIN LEADS = { 1 }
    /\ LEADS[1].status = "assigned"

\* C6: an ingest_lead call adds exactly one entry.  The Store grows by one
\* key, every lead that was there is unchanged, and the lead returned is the
\* one stored: status new, score and assigned_to unset, name, email and
\* source as passed, extra the mapping passed, or empty when none was.
C6_IngestAddsOne ==
    [][ (Len(issued') = Len(issued) + 1)
        => LET lead == ret'.lead
               call == ret'.call
           IN  /\ ret'.op = "ingest_lead" /\ ret'.err = None
               /\ len(LEADS') = len(LEADS) + 1
               /\ \A k \in DOMAIN LEADS : k \in DOMAIN LEADS' /\ LEADS'[k] = LEADS[k]
               /\ lead.id \in (DOMAIN LEADS') \ (DOMAIN LEADS)
               /\ LEADS'[lead.id] = lead
               /\ lead.status = "new"
               /\ lead.score = None
               /\ lead.assigned_to = NoRep
               /\ lead.name = call.name
               /\ lead.email = call.email
               /\ lead.source = call.source
               /\ lead.extra = IF call.extra.given THEN call.extra.dict
                               ELSE EmptyDict ]_vars

\* C6 witness: a second lead was ingested with a mapping, next to a lead
\* already worked on.
C6_SecondWithExtra ==
    /\ ret.op = "ingest_lead"
    /\ ret.call.extra.given
    /\ "note" \in DOMAIN ret.lead.extra
    /\ ret.lead.id = 2
    /\ LEADS[1].status = "assigned"

\* C7: score_lead on an existing lead sets score to SQL exactly when the
\* lead's extra has company "Acme Corp" and its source is "web_form", to MQL
\* in every other case (a lead without a company key too), and returns the
\* stored lead; the score is never left unset.
C7_ScoreRule ==
    [][ (ret'.op = "score_lead" /\ ret'.err = None)
        => LET id == ret'.arg
           IN  /\ id \in DOMAIN LEADS
               /\ LEADS'[id].score =
                     IF /\ "company" \in DOMAIN LEADS[id].extra
                        /\ LEADS[id].extra["company"] = "Acme Corp"
                        /\ LEADS[id].source = "web_form"
                     THEN "SQL" ELSE "MQL"
               /\ ret'.lead = LEADS'[id] ]_vars

\* C7 witness: a web_form lead without a company key was scored MQL.
C7_NoCompany ==
    /\ ret.op = "score_lead"
    /\ ret.err = None
    /\ "company" \notin DOMAIN ret.lead.extra
    /\ ret.lead.source = "web_form"
    /\ ret.lead.score = "MQL"

\* C8: enrich_lead is idempotent and keeps other keys.  After a call, extra
\* has the keys it had plus the four enrichment keys, these hold the
\* enrichment values (linkedin: the name lower-cased without spaces, after
\* the site prefix), every other key has its old value, and a call on a
\* lead enriched before leaves extra as it was.
C8_EnrichIdempotent ==
    [][ (ret'.op = "enrich_lead" /\ ret'.err = None)
        => LET id == ret'.arg
           IN  /\ id \in DOMAIN LEADS
               /\ DOMAIN LEADS'[id].extra = (DOMAIN LEADS[id].extra) \cup EnrichKeys
               /\ LEADS'[id].extra["company"] = "Acme Corp"
               /\ LEADS'[id].extra["industry"] = "Technology"
               /\ LEADS'[id].extra["location"] = "San Francisco, CA"
               /\ LEADS[id].name = <<"J", " ", "D">>
                     => LEADS'[id].extra["linkedin"]
                            = <<"https://linkedin.com/in/", "j", "d">>
               /\ \A k \in (DOMAIN LEADS[id].extra) \ EnrichKeys :
                      LEADS'[id].extra[k] = LEADS[id].extra[k]
               /\ "enrich" \in applied[id].ops
                     => LEADS'[id].extra = LEADS[id].extra ]_vars

\* C8 witness: a lead with a key of its own was enriched, scored SQL (so
\* after the enrichment), and enriched again.
C8_EnrichedTwice ==
    /\ ret.op = "enrich_lead"
    /\ ret.err = None
    /\ ret.lead.score = "SQL"
    /\ "note" \in DOMAIN ret.lead.extra
    /\ ret.lead.extra["note"] = "vip"
    /\ ret.lead.extra["linkedin"] = <<"https://linkedin.com/in/", "j", "d">>

\* C9: report totals.  In every state the report satisfies: the per-source
\* counts sum to total_leads, total_leads is the number of leads in the
\* Store, and the per-score counts sum to the number of leads whose score
\* is set, hence to at most total_leads.
C9_ReportTotals ==
    LET d == report_performance(LEADS).report_data
    IN  /\ sum_values(d.leads_by_source) = d.total_leads
        /\ d.total_leads = len(LEADS)
        /\ sum_values(d.leads_by_score) <= d.total_leads
        /\ sum_values(d.leads_by_score)
              = Cardinality({ k \in DOMAIN LEADS : LEADS[k].score # None })
        /\ (ret.op = "report_performance" /\ ret.err = None) => ret.report = d

\* C9 witness: a report over two leads of one source, one of them unscored.
C9_OneUnscored ==
    /\ ret.op = "report_performance"
    /\ ret.report.total_leads = 2
    /\ ret.report.leads_by_source = << <<"web_form", 2>> >>
    /\ sum_values(ret.report.leads_by_score) = 1

\* C10: one process_lead_and_report call for a web_form lead, run with
\* nothing else in between.  Against the report at its entry, its report has
\* total_leads, leads_by_source["web_form"], leads_by_score["SQL"] and
\* leads_by_rep[agent at the entry cursor] each raised by 1 and no other
\* count changed; the cursor is raised by 1.
C10_PipelineDelta ==
    \A p \in Procs :
        (pipe[p].pc = "done" /\ pipe[p].alone /\ pipe[p].source = "web_form")
        => LET b == pipe[p].before
               r == pipe[p].report_data
               agent == SALES_REPS[(pipe[p].cursor % 3) + 1].name
           IN  /\ r.total_leads = b.total_leads + 1
               /\ keys(r.leads_by_source) = keys(b.leads_by_source) \cup { "web_form" }
               /\ \A src \in keys(r.leads_by_source) :
                      get(r.leads_by_source, src, 0)
                         = get(b.leads_by_source, src, 0)
                              + (IF src = "web_form" THEN 1 ELSE 0)
               /\ keys(r.leads_by_score) = { "MQL", "SQL" }
               /\ get(r.leads_by_score, "SQL", 0) = get(b.leads_by_score, "SQL", 0) + 1
               /\ get(r.leads_by_score, "MQL", 0) = get(b.leads_by_score, "MQL", 0)
               /\ keys(r.leads_by_rep) = { "Alice", "Bob", "Carol" }
               /\ \A name \in keys(r.leads_by_rep) :
                      get(r.leads_by_rep, name, 0)
                         = get(b.leads_by_rep, name, 0)
                              + (IF name = agent THEN 1 ELSE 0)
               /\ route_counter = pipe[p].cursor + 1

\* C10 witness: such a call finished after the cursor had advanced, next to
\* an earlier lead.
C10_AloneDone ==
    /\ pipe["p1"].pc = "done"
    /\ pipe["p1"].alone
    /\ pipe["p1"].source = "web_form"
    /\ pipe["p1"].cursor = 1
    /\ pipe["p1"].before.total_leads = 1
    /\ get(pipe["p1"].report_data.leads_by_rep, "Bob", 0) = 1

\* C11: assigned_to and status change together.  In every state, between
\* the stages of a running pipeline too, a lead has an assigned agent
\* exactly when its status is "assigned".
C11_AssignedIffStatus ==
    \A id \in DOMAIN LEADS :
        (LEADS[id].assigned_to # NoRep) <=> (LEADS[id].status = "assigned")

\* C11 witness: a pipeline stands between its route and report stages with
\* its lead assigned, next to a lead that is not.
C11_MidPipeline ==
    /\ pipe["p1"].pc = "report"
    /\ pipe["p1"].lid = 2
    /\ LEADS[2].status = "assigned"
    /\ LEADS[2].assigned_to = SALES_REPS[1]
    /\ LEADS[1].status = "new"
    /\ LEADS[1].assigned_to = NoRep

\* C12: each operation changes only its own fields.  In every step, every
\* lead keeps its key, id, name, email and source; a lead that changes is
\* the one addressed by the call, and it changes in extra alone
\* (enrich_lead), in score alone (score_lead) or in assigned_to and status
\* alone (route_lead); ingest_lead and report_performance change no lead
\* that was there.
C12_Frame ==
    [][ \A k \in DOMAIN LEADS :
          /\ k \in DOMAIN LEADS'
          /\ LEADS'[k].id = LEADS[k].id
          /\ LEADS'[k].name = LEADS[k].name
          /\ LEADS'[k].email = LEADS[k].email
          /\ LEADS'[k].source = LEADS[k].source
          /\ LEADS'[k] # LEADS[k]
                => /\ k = ret'.arg
                   /\ ret'.op \in { "enrich_lead", "score_lead", "route_lead" }
                   /\ ret'.op = "enrich_lead"
                         => LEADS'[k] = [LEADS[k] EXCEPT !.extra = LEADS'[k].extra]
                   /\ ret'.op = "score_lead"
                         => LEADS'[k] = [LEADS[k] EXCEPT !.score = LEADS'[k].score]
                   /\ ret'.op = "route_lead"
                         => LEADS'[k] =
                               [LEADS[k] EXCEPT
                                   !.assigned_to = LEADS'[k].assigned_to,
                                   !.status = LEADS'[k].status] ]_vars

\* C12 witness: the second lead was routed after being enriched and scored,
\* while the first, scored only, stayed as it was.
C12_OtherLeadKept ==
    /\ ret.op = "route_lead"
    /\ ret.arg = 2
    /\ ret.err = None
    /\ ret.lead.score = "SQL"
    /\ LEADS[1].score = "MQL"
    /\ LEADS[1].status = "new"
    /\ LEADS[1].extra = EmptyDict

\* the report over an empty Store
EmptyReport ==
    [total_leads |-> 0,
     leads_by_source |-> <<>>,
     leads_by_score |-> << <<"MQL", 0>>, <<"SQL", 0>> >>,
     leads_by_rep |-> << <<"Alice", 0>>, <<"Bob", 0>>, <<"Carol", 0>> >>]

\* C13: reporting never fails.  In every state report_performance returns
\* (the agent of an assigned lead is always a key of leads_by_rep), every
\* report call made has returned, and over an empty Store the report is
\* total_leads 0, no source, SQL 0, MQL 0 and 0 for each roster agent.
C13_ReportNeverFails ==
    /\ report_performance(LEADS).err = None
    /\ ret.op = "report_performance" => ret.err = None
    /\ LEADS = EmptyDict => report_performance(LEADS).report_data = EmptyReport
    /\ \A p \in Procs : pipe[p].pc # "raised"

\* C13 witness: a pipeline entered on the empty Store (its entry report is
\* the empty one) and reported its lead under the agent it was given, after
\* direct calls moved the cursor to the last roster agent.
C13_EmptyThenAssigned ==
    /\ pipe["p1"].pc = "done"
    /\ pipe["p1"].report_data.total_leads = 1
    /\ get(pipe["p1"].report_data.leads_by_rep, "Carol", 0) = 1
    /\ ret.op = "report_performance"
    /\ ret.err = None

\* C14: the groupings of a report.  In every state the report's leads_by_rep
\* has exactly the roster agents' names as keys, each with the number of
\* leads now assigned to that agent, and leads_by_score has exactly the keys
\* SQL and MQL, each with the number of leads now holding that score.
C14_Groupings ==
    LET d == report_performance(LEADS).report_data
    IN  /\ Len(d.leads_by_rep) = Len(SALES_REPS)
        /\ \A i \in 1 .. Len(SALES_REPS) :
              /\ d.leads_by_rep[i][1] = SALES_REPS[i].name
              /\ d.leads_by_rep[i][2] =
                    Cardinality({ k \in DOMAIN LEADS :
                                    LEADS[k].assigned_to = SALES_REPS[i] })
        /\ Len(d.leads_by_score) = 2
        /\ keys(d.leads_by_score) = { "SQL", "MQL" }
        /\ \A sc \in { "SQL", "MQL" } :
              get(d.leads_by_score, sc, 0 - 1) =
                 Cardinality({ k \in DOMAIN LEADS : LEADS[k].score = sc })

\* C14 witness: a report over an SQL lead of Alice and an unassigned MQL lead.
C14_MixedReport ==
    /\ ret.op = "report_performance"
    /\ ret.report.leads_by_score = << <<"MQL", 1>>, <<"SQL", 1>> >>
    /\ ret.report.leads_by_rep = << <<"Alice", 1>>, <<"Bob", 0>>, <<"Carol", 0>> >>
    /\ ret.report = report_performance(LEADS).report_data

\* C15: the cursor counts the successful routes.  It starts at 0; a step in
\* which a route_lead body completes raises it by exactly 1; every other
\* step (ingest, enrich, score, report, a route_lead that raises KeyError)
\* leaves it as it is; so it always equals the number of completed routes.
C15_CursorCounts ==
    /\ route_counter = 0
    /\ [][ /\ Len(routed') = Len(routed) + 1 => route_counter' = route_counter + 1
           /\ Len(routed') = Len(routed) => route_counter' = route_counter
           /\ ret'.op # "route_lead" => route_counter' = route_counter
           /\ ret'.err # None => route_counter' = route_counter
           /\ route_counter' = Len(routed') ]_vars

\* C15 witness: a route_lead call failed on an absent id after two routes
\* had completed; the cursor is still 2.
C15_FailedRouteKeeps ==
    /\ ret.op = "route_lead"
    /\ ret.err = "KeyError"
    /\ route_counter = 2
    /\ Len(routed) = 2

\* C16 as stated: in every state a lead whose score is set holds the
\* enrichment keys in extra.
C16_ScoredImpliesEnriched ==
    \A id \in DOMAIN LEADS :
        LEADS[id].score # None => EnrichKeys \subseteq DOMAIN LEADS[id].extra

\* C16, amended: the order holds for the stages of process_lead_and_report,
\* not for direct calls.  The lead of a pipeline that has passed its enrich
\* stage holds the enrichment keys, with the canonical company; it has a
\* score once the score stage is passed; and while nothing else ran since
\* the pipeline's entry, its lead has no score before the score stage.
C16_PipelineOrder ==
    \A p \in Procs :
        LET lid == pipe[p].lid
        IN  /\ pipe[p].pc \in { "score", "route", "report", "done" }
                  => /\ EnrichKeys \subseteq DOMAIN LEADS[lid].extra
                     /\ LEADS[lid].extra["company"] = "Acme Corp"
            /\ pipe[p].pc \in { "route", "report", "done" }
                  => LEADS[lid].score \in { "SQL", "MQL" }
            /\ (pipe[p].pc \in { "enrich", "score" } /\ pipe[p].alone)
                  => LEADS[lid].score = None

\* C16 witness: a pipeline run alone has scored its enriched lead.
C16_ScoredAfterEnrich ==
    /\ pipe["p1"].pc = "route"
    /\ pipe["p1"].alone
    /\ LEADS[pipe["p1"].lid].score = "SQL"
    /\ LEADS[pipe["p1"].lid].extra["company"] = "Acme Corp"

\* C17: the Store only grows.  After every step each entry is stored under
\* its own id, the keys are exactly 1 .. len(LEADS), and every key that was
\* there is still there.
C17_StoreGrows ==
    [][ /\ \A k \in DOMAIN LEADS : k \in DOMAIN LEADS'
        /\ \A k \in DOMAIN LEADS' : LEADS'[k].id = k
        /\ DOMAIN LEADS' = 1 .. len(LEADS')
        /\ len(LEADS') >= len(LEADS) ]_vars

\* C17 witness: a second lead was ingested into a Store whose first lead had
\* been enriched, scored and routed.
C17_TwoKeys ==
    /\ DOMAIN LEADS = { 1, 2 }
    /\ ret.op = "ingest_lead"
    /\ ret.arg = 2
    /\ applied[1].ops = { "enrich", "score", "route" }
    /\ LEADS[1].id = 1

\* the lead holds what the four stages leave
Processed(lid) ==
    /\ lid \in DOMAIN LEADS
    /\ EnrichKeys \subseteq DOMAIN LEADS[lid].extra
    /\ LEADS[lid].score \in { "SQL", "MQL" }
    /\ LEADS[lid].status = "assigned"
    /\ LEADS[lid].assigned_to \in { SALES_REPS[i] : i \in 1 .. Len(SALES_REPS) }

C19_NeverUndone ==
    [][ /\ \A k \in DOMAIN LEADS :
              /\ k \in DOMAIN LEADS'
              /\ LEADS[k].status = "assigned" => LEADS'[k].status = "assigned"
              /\ LEADS[k].score \in { "SQL", "MQL" }
                    => LEADS'[k].score \in { "SQL", "MQL" }
              /\ \A key \in EnrichKeys :
                    key \in DOMAIN LEADS[k].extra
                       => key \in DOMAIN LEADS'[k].extra
        /\ \A k \in DOMAIN LEADS :
              ( /\ Len(routed') = Len(routed) + 1
                /\ ret'.arg = k
                /\ LEADS[k].status = "assigned" )
                 => LEADS' =
                       [LEADS EXCEPT ![k].assigned_to =
                           SALES_REPS[(route_counter % Len(SALES_REPS)) + 1]]
      ]_vars

\* C19 witness: a lead that was enriched, scored and routed has been routed
\* a second time; it holds the second agent of the roster and is still
\* assigned, scored and enriched.
C19_RoutedAgain ==
    /\ len(LEADS) = 1
    /\ Len(routed) = 2
    /\ ret.op = "route_lead" /\ ret.arg = 1 /\ ret.err = None
    /\ applied[1].ops = { "enrich", "score", "route" }
    /\ LEADS[1].assigned_to = SALES_REPS[2]
    /\ LEADS[1].status = "assigned"
    /\ LEADS[1].score \in { "SQL", "MQL" }
    /\ EnrichKeys \subseteq DOMAIN LEADS[1].extra

\* C20: report_performance is read-only.  A step that ends with a report as
\* the latest outcome leaves the Store (its keys and every field of every
\* lead) and the Assignment Cursor as they were; the report is the one
\* computed from that Store, and its markdown is the formatting of it; if
\* the outcome before the step was a report too, with no other operation in
\* between, the two reports are equal.  The roster is a constant: no line
\* of the source assigns SALES_REPS or an agent's field.
C20_ReportReadOnly ==
    [][ ret'.op = "report_performance"
          => /\ LEADS' = LEADS
             /\ route_counter' = route_counter
             /\ ret'.err = report_performance(LEADS).err
             /\ ret'.report = report_performance(LEADS).report_data
             /\ report_performance(LEADS').report_markdown
                   = format_report_markdown(ret'.report)
             /\ ret.op = "report_performance"
                   => /\ ret'.report = ret.report
                      /\ ret'.err = ret.err
      ]_vars

\* C20 witness: a pipeline's report was taken over two leads with the
\* cursor at three, between other calls, and it is the report of the Store
\* as it stands.
C20_ReportTaken ==
    /\ pipe["p1"].pc = "done"
    /\ ~pipe["p1"].alone
    /\ ret.op = "report_performance"
    /\ ret.report = pipe["p1"].report_data
    /\ ret.report = report_performance(LEADS).report_data
    /\ ret.report.total_leads = 2
    /\ len(LEADS) = 2
    /\ route_counter = 3
====
